---- MODULE Spec2Model ----
(***************************************************************************)
(* A model of cubedistance.py: the Monte Carlo estimate of the mean        *)
(* p-norm distance between two uniform random points of a unit hypercube.  *)
(*                                                                         *)
(* Floating point values are modelled in fixed point: the integer v stands *)
(* for the number v / Unit.  Sums, differences and products are exact: the  *)
(* product of k values is an integer that stands for a multiple of         *)
(* 1 / Unit^k.  A quotient and a root are rounded down to a multiple of    *)
(* 1 / Unit, the way a float operation rounds its exact result.            *)
(*                                                                         *)
(* The process-wide random generator is modelled as a Lehmer generator     *)
(* whose state is `rng`: the process starts with it in any of its states,  *)
(* and every sample() call draws its whole tensor from it, one call after  *)
(* the other.                                                              *)
(***************************************************************************)
EXTENDS Integers, Sequences, FiniteSets

\* ------------------------------------------------------------- bounds
MaxDim == 3
MaxPower == 2
MaxSamples == 4
MaxB == 12
MaxOffset == 8
MaxSeed == 4
Unit == 100

\* The loop bound of the model: one call more than any run with a positive
\* batch size needs, so that only a run that makes no progress is cut off.
MaxCalls == MaxSamples + 1

\* ------------------------------------------------------------- generator
Modulus == 31
Multiplier == 3

\* The values -f may take on the command line; the last one is not valid.
Precisions == {"half", "single", "double", "quad"}

\* ------------------------------------------------------------- arithmetic
Abs(x) == IF x < 0 THEN -x ELSE x

Min(a, b) == IF a <= b THEN a ELSE b

\* x / y on fixed point values (y > 0, x >= 0), rounded toward zero
FDiv(x, y) == (x * Unit) \div y

RECURSIVE PowCap(_, _, _)
\* r^k, or cap + 1 as soon as the power exceeds cap (no overflow)
PowCap(r, k, cap) ==
    IF k = 0 THEN 1
    ELSE LET q == PowCap(r, k - 1, cap)
         IN IF q > cap THEN cap + 1
            ELSE IF r > 0 /\ q > cap \div r THEN cap + 1
            ELSE q * r

RECURSIVE RootSearch(_, _, _, _)
\* the largest r in lo..hi with r^k <= x, given lo^k <= x
RootSearch(x, k, lo, hi) ==
    IF lo >= hi THEN lo
    ELSE LET mid == (lo + hi + 1) \div 2
         IN IF PowCap(mid, k, x) <= x
            THEN RootSearch(x, k, mid, hi)
            ELSE RootSearch(x, k, lo, mid - 1)

\* the integer k-th root of x >= 0, rounded down
IRoot(x, k) == RootSearch(x, k, 0, x)

RECURSIVE IPow(_, _)
IPow(b, e) == IF e = 0 THEN 1 ELSE b * IPow(b, e - 1)

\* tfm.pow(x, 1/k) of x >= 0, where x stands for x / Unit^k: the k-th root
\* as a fixed point value, rounded down
PowRecip(x, k) == IRoot(x, k)

\* ------------------------------------------------------------- random source
\* one step of the generator
Lehmer(s) == (Multiplier * s) % Modulus

RECURSIVE Skip(_, _)
\* the generator state after m draws
Skip(s, m) == IF m = 0 THEN s ELSE Skip(Lehmer(s), m - 1)

\* the m-th value (m >= 1) drawn after state s: uniform on [0, 1)
Draw(s, m) == (Skip(s, m) * Unit) \div Modulus

\* tfd.Uniform(low=zero).sample((n, d)): the next n * d values of the
\* generator in state s, row by row
UniformSample(s, n, d) ==
    [i \in 1..n |-> [j \in 1..d |-> Draw(s, (i - 1) * d + j)]]

\* ------------------------------------------------------------- tensor operations
\* x2s - x1s
Subtract(a, b) == [i \in DOMAIN a |-> [j \in DOMAIN a[i] |-> a[i][j] - b[i][j]]]

\* tf.reshape(t, (n_samples, max_dim, 1))
Reshape3(t) == [i \in DOMAIN t |-> [j \in DOMAIN t[i] |-> <<t[i][j]>>]]

\* tf.tile(t, (1, 1, p))
Tile(t, p) ==
    [i \in DOMAIN t |-> [j \in DOMAIN t[i] |-> [k \in 1..p |-> t[i][j][1]]]]

RECURSIVE ProdTo(_, _)
\* the product of the first k entries of a vector, by repeated multiplication
ProdTo(v, k) == IF k = 1 THEN v[1] ELSE ProdTo(v, k - 1) * v[k]

\* tfm.cumprod(t, axis=2)
CumProd(t) ==
    [i \in DOMAIN t |-> [j \in DOMAIN t[i] |->
        [k \in DOMAIN t[i][j] |-> ProdTo(t[i][j], k)]]]

\* tf.abs(t)
AbsT(t) ==
    [i \in DOMAIN t |-> [j \in DOMAIN t[i] |->
        [k \in DOMAIN t[i][j] |-> Abs(t[i][j][k])]]]

RECURSIVE SumTo(_, _, _)
\* the sum of row[1][k] .. row[j][k]
SumTo(row, j, k) == IF j = 0 THEN 0 ELSE SumTo(row, j - 1, k) + row[j][k]

\* no accumulation along the coordinates
CumSum_Plain(t) == t

\* tfm.cumsum(t, axis=1)
CumSum(t) ==
    [i \in DOMAIN t |-> [j \in DOMAIN t[i] |->
        [k \in DOMAIN t[i][j] |-> SumTo(t[i], j, k)]]]

\* tfm.pow(t, reshape(1 / range(1, max_power + 1), (1, 1, max_power)))
PowT(t) ==
    [i \in DOMAIN t |-> [j \in DOMAIN t[i] |->
        [k \in DOMAIN t[i][j] |-> PowRecip(t[i][j][k], k)]]]

RECURSIVE SumSamples(_, _, _, _)
SumSamples(t, i, j, k) ==
    IF i = 0 THEN 0 ELSE SumSamples(t, i - 1, j, k) + t[i][j][k]

\* tf.reduce_sum(t, axis=0) of a tensor of shape (n, d, p)
ReduceSum(t, d, p) ==
    [j \in 1..d |-> [k \in 1..p |-> SumSamples(t, Len(t), j, k)]]

\* tf.zeros((d, p))
Zeros(d, p) == [j \in 1..d |-> [k \in 1..p |-> 0]]

\* ------------------------------------------------------------- sample_batch
\* sum_terms without the absolute value
SumTerms_Signed(vector_difference, p) ==
    CumProd(Tile(Reshape3(vector_difference), p))

\* sum_terms: the coordinate differences raised to the powers 1..max_power
SumTerms(vector_difference, p) ==
    AbsT(CumProd(Tile(Reshape3(vector_difference), p)))

\* norm: cumulative sums along the coordinates, raised to 1/power
Norm(sum_terms) == PowT(CumSum(sum_terms))

\* sample_batch(n_samples, max_dim, max_power, dtype), reading the generator
\* state s: the points drawn, the table returned and the generator state left
sample_batch(s, n, d, p) ==
    LET a == UniformSample(s, n, d)
        b == UniformSample(Skip(s, n * d), n, d)
        vector_difference == Subtract(b, a)
    IN [x1s |-> a, x2s |-> b,
        result |-> ReduceSum(Norm(SumTerms(vector_difference, p)), d, p),
        rng |-> Skip(s, 2 * n * d)]

\* ------------------------------------------------------------- text
Digits == <<"0", "1", "2", "3", "4", "5", "6", "7", "8", "9">>

RECURSIVE Str(_)
\* str(i) of an integer i >= 0
Str(i) == IF i < 10 THEN Digits[i + 1] ELSE Str(i \div 10) \o Digits[(i % 10) + 1]

RECURSIVE Padded(_, _)
\* i in exactly `width` decimal digits
Padded(i, width) ==
    IF width = 0 THEN "" ELSE Padded(i \div 10, width - 1) \o Digits[(i % 10) + 1]

\* f'{x:.6f}' of a fixed point value x >= 0: x / Unit rounded to a millionth
Format6f(x) ==
    LET millionths == (x * 1000000 + Unit \div 2) \div Unit
    IN Str(millionths \div 1000000) \o "." \o Padded(millionths % 1000000, 6)

RECURSIVE Join(_, _)
\* sep.join(items)
Join(sep, items) ==
    IF items = <<>> THEN ""
    ELSE IF Len(items) = 1 THEN items[1]
    ELSE items[1] \o sep \o Join(sep, Tail(items))

\* ------------------------------------------------------------- the driver
VARIABLES
    arguments,      \* the docopt result: d, p, r, n, b, f
    pc,             \* the statement of __main__ the program is at
    max_power, max_dim, n_samples, max_batch_size, dtype,
    sample_sums, sample_count, batch_size, means,
    rng,            \* the state of the process-wide random generator
    drawn,          \* the points of every sample drawn so far, in order
    calls,          \* the n_samples argument of every sample_batch call made
    batch,          \* the points drawn and the table returned by the last call
    output,         \* the lines printed
    error           \* the message of the failed assertion, or "" if none

vars == <<arguments, pc, max_power, max_dim, n_samples, max_batch_size, dtype,
          sample_sums, sample_count, batch_size, means, rng, drawn, calls,
          batch, output, error>>

\* ------------------------------------------------------------- Python numbers
\* A Python int n >= 0 at full width is the sequence of its binary digits,
\* the most significant first (<<>> for 0).  A Python float x >= 0 is
\* [bits, exp], which stands for the number bits * 2^exp, with at most
\* MantissaBits significant digits.  The range of the exponent is not
\* modelled (no overflow to inf, no subnormal numbers).
MantissaBits == 53

Front(q) == SubSeq(q, 1, Len(q) - 1)

Last(q) == q[Len(q)]

ZeroBits(n) == [i \in 1..n |-> 0]

RECURSIVE ToBits(_)
\* the binary digits of the integer n >= 0
ToBits(n) == IF n = 0 THEN <<>> ELSE Append(ToBits(n \div 2), n % 2)

RECURSIVE FromBits(_)
\* the integer of a sequence of binary digits
FromBits(bits) ==
    IF bits = <<>> THEN 0 ELSE 2 * FromBits(Front(bits)) + Last(bits)

\* without the leading zeros
Strip(bits) ==
    LET ones == {i \in DOMAIN bits : bits[i] = 1}
    IN IF ones = {} THEN <<>>
       ELSE SubSeq(bits, CHOOSE i \in ones : \A j \in ones : i <= j, Len(bits))

\* bits + 1
Increment(bits) ==
    LET zeros == {i \in DOMAIN bits : bits[i] = 0}
    IN IF zeros = {} THEN <<1>> \o ZeroBits(Len(bits))
       ELSE LET k == CHOOSE i \in zeros : \A j \in zeros : j <= i
            IN [i \in DOMAIN bits |-> IF i < k THEN bits[i] ELSE IF i = k THEN 1 ELSE 0]

\* a <= b, for integers without leading zeros
LeqBits(a, b) ==
    IF Len(a) # Len(b) THEN Len(a) < Len(b)
    ELSE \/ a = b
         \/ \E i \in DOMAIN a : a[i] < b[i] /\ \A j \in 1..(i - 1) : a[j] = b[j]

\* min(a, b)
MinBits(a, b) == IF LeqBits(a, b) THEN a ELSE b

\* a - b for b <= a
MinusBits(a, b) == IF b = <<>> THEN a ELSE ToBits(FromBits(a) - FromBits(b))

RECURSIVE LongDivFrom(_, _, _)
\* the quotient digits q and the remainder r of r0 * 2^Len(bits) + bits
\* divided by D, for r0 < D, by halves
LongDivFrom(bits, D, r0) ==
    IF bits = <<>> THEN [q |-> <<>>, r |-> r0]
    ELSE IF Len(bits) = 1
    THEN [q |-> <<(2 * r0 + bits[1]) \div D>>, r |-> (2 * r0 + bits[1]) % D]
    ELSE LET h == Len(bits) \div 2
             high == LongDivFrom(SubSeq(bits, 1, h), D, r0)
             low == LongDivFrom(SubSeq(bits, h + 1, Len(bits)), D, high.r)
         IN [q |-> high.q \o low.q, r |-> low.r]

\* the quotient q and the remainder r of the integer `bits` divided by D
LongDiv(bits, D) == LongDivFrom(bits, D, 0)

\* bits // D
FloorDiv(bits, D) == Strip(LongDiv(bits, D).q)

\* The float nearest to (q + f) * 2^exp, ties to the even mantissa, where q
\* is an integer without leading zeros and 0 <= f < 1, with f > 0 iff sticky.
RoundBits(q, sticky, exp) ==
    IF Len(q) <= MantissaBits THEN [bits |-> q, exp |-> exp]
    ELSE LET top == SubSeq(q, 1, MantissaBits)
             rest == sticky \/ \E i \in (MantissaBits + 2)..Len(q) : q[i] = 1
             up == q[MantissaBits + 1] = 1 /\ (rest \/ top[MantissaBits] = 1)
             m == IF up THEN Increment(top) ELSE top
             shift == Len(q) - MantissaBits
         IN IF Len(m) > MantissaBits
            THEN [bits |-> SubSeq(m, 1, MantissaBits), exp |-> exp + shift + 1]
            ELSE [bits |-> m, exp |-> exp + shift]

\* the correctly rounded quotient of the number x by the integer D >= 1
Quotient(x, D) ==
    IF x.bits = <<>> THEN x
    ELSE LET z == MantissaBits + 1 + Len(ToBits(D))
             res == LongDiv(x.bits \o ZeroBits(z), D)
         IN RoundBits(Strip(res.q), res.r # 0, x.exp - z)

\* a / b of two ints: the float nearest to the exact quotient
IntTrueDiv(a, b) == Quotient([bits |-> a, exp |-> 0], b)

\* x / n of a float and an int: n becomes a float first
FloatTrueDiv(x, n) ==
    LET y == RoundBits(ToBits(n), FALSE, 0)
    IN Quotient(x, FromBits(y.bits) * IPow(2, y.exp))

\* int(x) of a float x >= 0: the digits before the point
IntOf(x) ==
    IF x.exp >= 0 THEN Strip(x.bits \o ZeroBits(x.exp))
    ELSE IF Len(x.bits) + x.exp <= 0 THEN <<>>
    ELSE SubSeq(x.bits, 1, Len(x.bits) + x.exp)

\* int(int(arguments['-b']) / max_dim / max_power), b at full width
MaxBatchSizeBits(b, d, p) == IntOf(FloatTrueDiv(IntTrueDiv(b, d), p))

\* int(int(arguments['-b']) / max_dim / max_power)
MaxBatchSize(b, d, p) == FromBits(MaxBatchSizeBits(ToBits(b), d, p))

\* an unrecognized -f value falling back to double
DType_Fallback(f) ==
    IF f = "half" THEN "float16"
    ELSE IF f = "single" THEN "float32"
    ELSE "float64"

\* the dtype selected by -f; "None" when the value is not recognized
DType(f) ==
    IF f = "half" THEN "float16"
    ELSE IF f = "single" THEN "float32"
    ELSE IF f = "double" THEN "float64"
    ELSE "None"

\* the message of the assertion on dtype
AssertMessage(f) == "Invalid datatype for -f \"" \o f \o "\""

\* the batch size without the cap at the samples remaining
BatchSize_Uncapped(n, count, mbs) == mbs

\* min(n_samples - sample_count, max_batch_size)
BatchSize(n, count, mbs) == Min(n - count, mbs)

\* the sums overwritten by the table of the batch
Accumulate_Overwrite(sums, table) == table

\* sample_sums += table
Accumulate(sums, table) ==
    [j \in DOMAIN sums |-> [k \in DOMAIN sums[j] |-> sums[j][k] + table[j][k]]]

\* the count advanced by one per batch
Advance_ByOne(count, size) == count + 1

\* sample_count += batch_size
Advance(count, size) == count + size

\* sample_sums / n_samples
Means(sums, n) ==
    [j \in DOMAIN sums |-> [k \in DOMAIN sums[j] |-> FDiv(sums[j][k], n * Unit)]]

\* the dimension itself in place of the diagonal
Diagonals_NoRoot(d, p) == [j \in 1..d |-> [k \in 1..p |-> j * Unit]]

\* tf.pow(reshape(range(1, max_dim + 1), (max_dim, 1)),
\*        reshape(1 / range(1, max_power + 1), (1, max_power)))
Diagonals(d, p) ==
    [j \in 1..d |-> [k \in 1..p |-> PowRecip(j * IPow(Unit, k), k)]]

\* means /= Diagonals
Normalize(m, diag) ==
    [j \in DOMAIN m |-> [k \in DOMAIN m[j] |-> FDiv(m[j][k], diag[j][k])]]

\* 'DIM\Power, ' + ', '.join([str(i) for i in range(1, max_power + 1)])
HeaderLine(p) == "DIM\\Power, " \o Join(", ", [i \in 1..p |-> Str(i)])

\* rows numbered from 0
RowLine_ZeroBased(i, m) ==
    Str(i) \o ", " \o Join(", ", [k \in DOMAIN m[i + 1] |-> Format6f(m[i + 1][k])])

\* f'{i+1}, ' + ', '.join([f'{x:.6f}' for x in means[i]]), i counted from 0
RowLine(i, m) ==
    Str(i + 1) \o ", " \o Join(", ", [k \in DOMAIN m[i + 1] |-> Format6f(m[i + 1][k])])

NoBatch == [x1s |-> <<>>, x2s |-> <<>>, result |-> <<>>]

NoPoints == [x1s |-> <<>>, x2s |-> <<>>]

\* the command lines considered: positive integers for -d, -p, -r and -b
CommandLines ==
    [d : 1..MaxDim, p : 1..MaxPower, r : 1..MaxSamples,
     n : BOOLEAN, b : 1..MaxB, f : Precisions]

NoArguments == [d |-> 0, p |-> 0, r |-> 0, n |-> FALSE, b |-> 0, f |-> ""]

Init ==
    /\ arguments = NoArguments
    /\ drawn = NoPoints
    /\ rng = 0
    /\ pc = "start"
    /\ max_power = 0 /\ max_dim = 0 /\ n_samples = 0 /\ max_batch_size = 0
    /\ dtype = "None"
    /\ sample_sums = <<>> /\ sample_count = 0 /\ batch_size = 0
    /\ means = <<>>
    /\ calls = <<>>
    /\ batch = NoBatch
    /\ output = <<>>
    /\ error = ""

\* line 71: the process starts on some command line, its generator in some
\* state
Docopt ==
    /\ pc = "start"
    /\ arguments' \in CommandLines
    /\ rng' \in 1..MaxSeed
    /\ pc' = "parse"
    /\ UNCHANGED <<max_power, max_dim, n_samples, max_batch_size, dtype,
                   sample_sums, sample_count, batch_size, means, drawn, calls,
                   batch, output, error>>

\* lines 72-85: read the arguments, check the precision, clear the sums
ParseArguments ==
    /\ pc = "parse"
    /\ max_power' = arguments.p
    /\ max_dim' = arguments.d
    /\ n_samples' = arguments.r
    /\ max_batch_size' = MaxBatchSize(arguments.b, arguments.d, arguments.p)
    /\ dtype' = DType(arguments.f)
    /\ IF dtype' = "None"
       THEN /\ error' = AssertMessage(arguments.f)
            /\ pc' = "failed"
            /\ UNCHANGED sample_sums
       ELSE /\ sample_sums' = Zeros(arguments.d, arguments.p)
            /\ pc' = "loop"
            /\ UNCHANGED error
    /\ UNCHANGED <<arguments, sample_count, batch_size, means, rng, drawn,
                   calls, batch, output>>

\* lines 87-90: one iteration of the accumulation loop
AccumulateBatch ==
    /\ pc = "loop"
    /\ sample_count < n_samples
    /\ Len(calls) < MaxCalls
    /\ LET size == BatchSize(n_samples, sample_count, max_batch_size)
           got == sample_batch(rng, size, max_dim, max_power)
       IN /\ batch_size' = size
          /\ calls' = Append(calls, size)
          /\ batch' = [x1s |-> got.x1s, x2s |-> got.x2s, result |-> got.result]
          /\ rng' = got.rng
          /\ drawn' = [x1s |-> drawn.x1s \o got.x1s, x2s |-> drawn.x2s \o got.x2s]
          /\ sample_sums' = Accumulate(sample_sums, got.result)
          /\ sample_count' = Advance(sample_count, size)
    /\ UNCHANGED <<arguments, pc, max_power, max_dim, n_samples,
                   max_batch_size, dtype, means, output, error>>

\* lines 87, 93: the loop ends and the sums become means
ComputeMeans ==
    /\ pc = "loop"
    /\ ~(sample_count < n_samples)
    /\ means' = Means(sample_sums, n_samples)
    /\ pc' = "normalize"
    /\ UNCHANGED <<arguments, max_power, max_dim, n_samples, max_batch_size,
                   dtype, sample_sums, sample_count, batch_size, rng, drawn,
                   calls, batch, output, error>>

\* lines 96-101: normalize to the longest diagonal if requested
NormalizeMeans ==
    /\ pc = "normalize"
    /\ means' = IF arguments.n
                THEN Normalize(means, Diagonals(max_dim, max_power))
                ELSE means
    /\ pc' = "header"
    /\ UNCHANGED <<arguments, max_power, max_dim, n_samples, max_batch_size,
                   dtype, sample_sums, sample_count, batch_size, rng, drawn,
                   calls, batch, output, error>>

\* line 104: the header line
PrintHeader ==
    /\ pc = "header"
    /\ output' = Append(output, HeaderLine(max_power))
    /\ pc' = "rows"
    /\ UNCHANGED <<arguments, max_power, max_dim, n_samples, max_batch_size,
                   dtype, sample_sums, sample_count, batch_size, means, rng,
                   drawn, calls, batch, error>>

\* lines 105-106: one row of the table; i is the loop variable
PrintRow ==
    /\ pc = "rows"
    /\ LET i == Len(output) - 1
       IN IF i < Len(means)
          THEN /\ output' = Append(output, RowLine(i, means))
               /\ UNCHANGED pc
          ELSE /\ pc' = "done"
               /\ UNCHANGED output
    /\ UNCHANGED <<arguments, max_power, max_dim, n_samples, max_batch_size,
                   dtype, sample_sums, sample_count, batch_size, means, rng,
                   drawn, calls, batch, error>>

Next ==
    \/ Docopt
    \/ ParseArguments
    \/ AccumulateBatch
    \/ ComputeMeans
    \/ NormalizeMeans
    \/ PrintHeader
    \/ PrintRow

Spec == Init /\ [][Next]_vars

\* ------------------------------------------------------------- wide ceilings
\* The same program on command lines whose -b has more digits than a float
\* keeps.  Here -b, -r, max_batch_size, n_samples, sample_count, batch_size
\* and the entries of calls are integers at full width (sequences of binary
\* digits).

\* 2^MantissaBits + k, for 0 <= k < 2^MantissaBits
WideInt(k) == <<1>> \o ZeroBits(MantissaBits - Len(ToBits(k))) \o ToBits(k)

\* -b from 2^53 on, and -r = 2^54, above every ceiling these give
WideCommandLines ==
    [d : 1..MaxDim, p : 1..MaxPower, r : {<<1>> \o ZeroBits(MantissaBits + 1)},
     n : BOOLEAN, b : {WideInt(k) : k \in 0..MaxOffset}, f : Precisions]

\* line 71
DocoptWide ==
    /\ pc = "start"
    /\ arguments' \in WideCommandLines
    /\ rng' \in 1..MaxSeed
    /\ pc' = "parse"
    /\ UNCHANGED <<max_power, max_dim, n_samples, max_batch_size, dtype,
                   sample_sums, sample_count, batch_size, means, drawn, calls,
                   batch, output, error>>

\* lines 72-85
ParseArgumentsWide ==
    /\ pc = "parse"
    /\ max_power' = arguments.p
    /\ max_dim' = arguments.d
    /\ n_samples' = arguments.r
    /\ max_batch_size' = MaxBatchSizeBits(arguments.b, arguments.d, arguments.p)
    /\ dtype' = DType(arguments.f)
    /\ IF dtype' = "None"
       THEN /\ error' = AssertMessage(arguments.f)
            /\ pc' = "failed"
            /\ UNCHANGED <<sample_sums, sample_count>>
       ELSE /\ sample_sums' = Zeros(arguments.d, arguments.p)
            /\ sample_count' = <<>>
            /\ pc' = "loop"
            /\ UNCHANGED error
    /\ UNCHANGED <<arguments, batch_size, means, rng, drawn, calls, batch,
                   output>>

\* lines 87-90: the first iteration of the loop.  The driver calls
\* sample_batch with batch_size samples; the call asks for tensors of
\* batch_size * max_dim * max_power values, at least 2^53 - max_dim * max_power
\* of them, which cannot be allocated, and the run ends in the fault.
AccumulateBatchWide ==
    /\ pc = "loop"
    /\ ~LeqBits(n_samples, sample_count)
    /\ LET size == MinBits(MinusBits(n_samples, sample_count), max_batch_size)
       IN /\ batch_size' = size
          /\ calls' = Append(calls, size)
    /\ error' = "ResourceExhaustedError"
    /\ pc' = "failed"
    /\ UNCHANGED <<arguments, max_power, max_dim, n_samples, max_batch_size,
                   dtype, sample_sums, sample_count, means, rng, drawn, batch,
                   output>>

NextWide ==
    \/ DocoptWide
    \/ ParseArgumentsWide
    \/ AccumulateBatchWide

WideSpec == Init /\ [][NextWide]_vars

\* ============================================================= properties
PastLoop == pc \in {"normalize", "header", "rows", "done"}

Printing == pc \in {"rows", "done"}

RECURSIVE SumSeq(_)
SumSeq(q) == IF q = <<>> THEN 0 ELSE q[1] + SumSeq(Tail(q))

\* ceil(a / b) for a >= 0, b >= 1
CeilDiv(a, b) == (a + b - 1) \div b

RECURSIVE SumAbsPow(_, _, _, _)
\* |b[1] - a[1]|^p + ... + |b[d] - a[d]|^p, the absolute difference first
SumAbsPow(a, b, d, p) ==
    IF d = 0 THEN 0 ELSE SumAbsPow(a, b, d - 1, p) + IPow(Abs(b[d] - a[d]), p)

\* the p-norm distance of the points a and b over their first d coordinates
Distance(a, b, d, p) == IRoot(SumAbsPow(a, b, d, p), p)

RECURSIVE SumDistances(_, _, _, _, _)
\* the sum of the distances of the first i pairs of as and bs
SumDistances(as, bs, i, d, p) ==
    IF i = 0 THEN 0
    ELSE SumDistances(as, bs, i - 1, d, p) + Distance(as[i], bs[i], d, p)

\* the table of distance sums of the pairs as[i], bs[i]
DistanceTable(as, bs, d, p) ==
    [j \in 1..d |-> [k \in 1..p |-> SumDistances(as, bs, Len(as), j, k)]]

\* a table is non-decreasing in the dimension for every power
Monotone(t) ==
    \A j \in DOMAIN t : \A k \in DOMAIN t[j] :
        (j + 1) \in DOMAIN t => t[j + 1][k] >= t[j][k]

\* C1: with n_samples >= 1 and max_batch_size >= 1 the accumulation loop
\* terminates, and past the loop sample_count equals n_samples exactly.
\* Termination is stated by the loop's variant: every step taken in the loop
\* either raises sample_count, by at least one and to at most n_samples, or
\* leaves the loop with sample_count = n_samples; and a step is always there
\* to take (the loop is never cut off by the bound on the number of calls).
C1_LoopTerminatesExact ==
    /\ [][pc = "loop" /\ max_batch_size >= 1 =>
            IF pc' = "loop"
            THEN sample_count < sample_count' /\ sample_count' <= n_samples
            ELSE pc' = "normalize" /\ sample_count' = n_samples]_vars
    /\ [](pc = "loop" /\ max_batch_size >= 1 /\ sample_count < n_samples
              => Len(calls) < MaxCalls)
    /\ [](PastLoop /\ max_batch_size >= 1 => sample_count = n_samples)

C1_Witness ==
    /\ pc = "normalize" /\ max_batch_size >= 1
    /\ Len(calls) >= 2 /\ calls[Len(calls)] < max_batch_size
    /\ sample_count = n_samples

\* C2: every call of sample_batch computes at most -b parallel values,
\* batch_size * max_dim * max_power <= b, for every positive b.  At full
\* width the product is avoided: for integers the inequality is the same as
\* batch_size <= b // (max_dim * max_power).
C2_BatchWithinCeiling ==
    \A i \in DOMAIN calls :
        LeqBits(calls[i], FloorDiv(arguments.b, max_dim * max_power))

\* the same ceiling on the command lines of Spec, where b is below 2^53
NarrowCeiling ==
    \A i \in DOMAIN calls : calls[i] * max_dim * max_power <= arguments.b

\* C3: an -f value other than half, single, double fails the run with a
\* message naming the value, before any sample_batch call and any output;
\* a valid -f value never fails.
C3_PrecisionValidated ==
    /\ pc \notin {"start", "parse"} =>
          (pc = "failed" <=> arguments.f \notin {"half", "single", "double"})
    /\ pc = "failed" =>
          /\ error = "Invalid datatype for -f \"" \o arguments.f \o "\""
          /\ calls = <<>>
          /\ output = <<>>
    /\ pc # "failed" => error = ""

C3_Witness == pc = "failed" /\ arguments.f = "quad" /\ error # ""

\* C4: past the loop the accumulated table is the sum of the contributions of
\* the n_samples sample pairs the run has drawn, one pair after the other: a
\* value that depends on the stream of pairs only, not on the batches the
\* ceiling b (with max_batch_size >= 1) cut it into.
C4_BatchingInvariance ==
    PastLoop /\ max_batch_size >= 1 =>
        /\ Len(drawn.x1s) = n_samples /\ Len(drawn.x2s) = n_samples
        /\ sample_sums = DistanceTable(drawn.x1s, drawn.x2s, max_dim, max_power)

C4_Witness ==
    /\ pc = "normalize" /\ max_batch_size >= 1
    /\ Len(calls) >= 2 /\ calls[1] >= 2
    /\ sample_sums[max_dim][max_power] > 0

\* C5: sample_batch returns a table of shape (max_dim x max_power) whose
\* entry [d][k] is the sum over the pairs of the batch of the k-norm distance
\* over the first d coordinates; the terms before the root, computed as the
\* code does (product of the signed differences first, absolute value after),
\* are those of the absolute differences raised to the powers 1..max_power.
C5_BatchTable ==
    calls # <<>> =>
        /\ DOMAIN batch.result = 1..max_dim
        /\ \A j \in 1..max_dim : DOMAIN batch.result[j] = 1..max_power
        /\ Len(batch.x1s) = batch_size /\ Len(batch.x2s) = batch_size
        /\ batch.result = DistanceTable(batch.x1s, batch.x2s, max_dim, max_power)
        /\ \A i \in 1..batch_size : \A j \in 1..max_dim : \A k \in 1..max_power :
              CumSum(SumTerms(Subtract(batch.x2s, batch.x1s), max_power))[i][j][k]
                  = SumAbsPow(batch.x1s[i], batch.x2s[i], j, k)

C5_Witness ==
    /\ calls # <<>> /\ batch_size >= 2 /\ max_dim >= 2 /\ max_power >= 2
    /\ \E i \in 1..batch_size : \E j \in 1..max_dim :
          batch.x2s[i][j] < batch.x1s[i][j]
    /\ batch.result[max_dim][max_power] > 0

\* C6: for every power the table entry of dimension d + 1 is at least the
\* entry of dimension d, in every sample_batch result, in the accumulated
\* sums and in the means (before normalization).
C6_Monotone ==
    /\ calls # <<>> => Monotone(batch.result)
    /\ Monotone(sample_sums)
    /\ pc = "normalize" => Monotone(means)
    /\ PastLoop /\ ~arguments.n => Monotone(means)

C6_Witness ==
    /\ pc = "normalize" /\ max_dim >= 3 /\ Len(calls) >= 2
    /\ \A k \in 1..max_power : means[1][k] < means[2][k] /\ means[2][k] < means[3][k]
    /\ \E i \in 1..batch_size : \E j \in 1..max_dim :
          batch.x2s[i][j] < batch.x1s[i][j]

\* the mean of the accumulated sums at (dimension j, power k)
UnnormalizedMean(j, k) == sample_sums[j][k] \div n_samples

\* j^(1/k), the longest diagonal of the unit hypercube of dimension j
Diagonal(j, k) == IRoot(j * IPow(Unit, k), k)

\* the value the run is to print at (dimension j, power k)
Printed(j, k) ==
    IF arguments.n
    THEN (UnnormalizedMean(j, k) * Unit) \div Diagonal(j, k)
    ELSE UnnormalizedMean(j, k)

\* the comma-separated line of a sequence of fields
Line(fields) == Join(", ", fields)

\* the fields of the header and of the data row of dimension j of table m
HeaderFields == <<"DIM\\Power">> \o [k \in 1..max_power |-> Str(k)]

RowFields(j, m) == <<Str(j)>> \o [k \in 1..max_power |-> Format6f(m[j][k])]

\* C7: with -n the printed value at (d, p) is the unnormalized mean divided
\* by d^(1/p) and lies in [0, 1]; without -n the means are printed unchanged.
C7_Normalization ==
    /\ pc \in {"header", "rows", "done"} =>
          \A j \in 1..max_dim : \A k \in 1..max_power :
              /\ means[j][k] = Printed(j, k)
              /\ arguments.n => 0 <= means[j][k] /\ means[j][k] <= Unit
    /\ pc = "done" =>
          \A j \in 1..max_dim :
              output[j + 1] =
                  Line(<<Str(j)>> \o [k \in 1..max_power |-> Format6f(Printed(j, k))])

C7_Witness ==
    /\ pc = "done" /\ arguments.n /\ max_dim >= 2 /\ max_power >= 2
    /\ means[2][2] > 0 /\ means[2][2] < UnnormalizedMean(2, 2)

\* C8: a successful run prints the header line 'DIM\Power, 1, ..., max_power'
\* and then max_dim data rows in ascending order, row i with max_power + 1
\* fields: the integer i and the table entries of dimension i; nothing is
\* printed before the accumulation loop has finished.
C8_OutputShape ==
    /\ output # <<>> => Printing /\ ~(sample_count < n_samples)
    /\ Printing =>
          /\ Len(output) >= 1 /\ Len(output) <= max_dim + 1
          /\ output[1] = Line(HeaderFields)
          /\ Len(HeaderFields) = max_power + 1
          /\ \A i \in 1..(Len(output) - 1) :
                /\ output[i + 1] = Line(RowFields(i, means))
                /\ Len(RowFields(i, means)) = max_power + 1
    /\ pc = "done" => Len(output) = max_dim + 1

C8_Witness ==
    /\ pc = "done" /\ max_dim = 2 /\ max_power = 2
    /\ Len(output) = 3
    /\ output[1] = "DIM\\Power, 1, 2"
    /\ ~arguments.n /\ means[2][1] > Unit /\ means[2][2] > 0

\* C9: every call of sample_batch passes a positive number of samples, also
\* when b is smaller than max_dim * max_power.
C9_EveryCallPositive == \A i \in DOMAIN calls : calls[i] >= 1

\* C10: with max_batch_size >= 1 the driver makes ceil(n_samples /
\* max_batch_size) calls; every call but the last has max_batch_size samples
\* and the last has the rest; throughout, 0 <= sample_count <= n_samples and
\* sample_count is the total size of the batches accumulated.
C10_BatchSchedule ==
    pc \in {"loop"} \cup {"normalize", "header", "rows", "done"}
        /\ max_batch_size >= 1 =>
        /\ 0 <= sample_count /\ sample_count <= n_samples
        /\ sample_count = SumSeq(calls)
        /\ \A i \in 1..(Len(calls) - 1) : calls[i] = max_batch_size
        /\ Len(calls) = CeilDiv(sample_count, max_batch_size)
        /\ PastLoop =>
              /\ Len(calls) = CeilDiv(n_samples, max_batch_size)
              /\ calls[Len(calls)] =
                    n_samples - (Len(calls) - 1) * max_batch_size

C10_Witness ==
    /\ pc = "normalize" /\ max_batch_size = 2 /\ n_samples = 3
    /\ calls = <<2, 1>>

====
